---- MODULE Spec2Model ----
(***************************************************************************)
(* Model of the Stripe webhook relay of app/api/stripe/webhook/route.ts.   *)
(*                                                                         *)
(* The source file holds two observed variants of the route, one after     *)
(* the other: variant 1 (lines 1-301) and variant 2 (lines 303-707).  The  *)
(* parser, the verifier and the introspector are the same text in both;    *)
(* forwardToSupabase and POST differ.  The variable `variant` says which   *)
(* of the two is deployed in a behaviour.                                  *)
(*                                                                         *)
(* Spec is the handler of one request, SpecVerify the verifier on its own  *)
(* over headers off the documented format, SpecPair two requests in        *)
(* flight under one configuration.                                         *)
(*                                                                         *)
(* Strings are sequences of one-character strings, so that split, trim,    *)
(* parseInt, the template literal and the hex codec are computed as the    *)
(* code computes them.                                                     *)
(***************************************************************************)
EXTENDS Integers, Sequences, FiniteSets, TLC

VARIABLES
  variant,           \* 1 or 2: which variant of route.ts is deployed
  env,               \* process.env, read-only while requests are handled
  request,           \* [r -> the inbound Request]
  pc,                \* [r -> position of the handler of request r]
  rawBody,           \* [r -> POST's local rawBody]
  stripeSignature,   \* [r -> POST's local stripeSignature, an option]
  entries,           \* [r -> verifyStripeSignature's local entries]
  currentTimestamp,  \* [r -> verifyStripeSignature's local currentTimestamp]
  signedPayloads,    \* [r -> the messages the verifier passed to hmac.update]
  verification,      \* [r -> result of verifyStripeSignature, an option]
  eventInfo,         \* [r -> result of safeJsonParseForLog, an option]
  outbound,          \* [r -> the fetch calls issued to the downstream endpoint]
  timer,             \* [r -> state of the abort timer of forwardToSupabase]
  downstream,        \* [r -> what the downstream endpoint did with the call]
  errorBody,         \* [r -> forwardToSupabase's local errorBody, an option]
  forwardResult,     \* [r -> result of forwardToSupabase, an option]
  response,          \* [r -> the Response returned to the sender, an option]
  fault              \* [r -> the exception caught by POST's catch block, an option]

vars == <<variant, env, request, pc, rawBody, stripeSignature, entries,
          currentTimestamp, signedPayloads, verification, eventInfo, outbound,
          timer, downstream, errorBody, forwardResult, response, fault>>

----------------------------------------------------------------------------
(* Option values: null/undefined is None, a value v is Some(v).            *)

None == <<>>
Some(v) == <<v>>
IsNone(o) == o = <<>>
IsSome(o) == o # <<>>
Get(o) == o[1]
OrEmpty(o) == IF o # <<>> THEN o[1] ELSE <<>>

----------------------------------------------------------------------------
(* Characters and strings.                                                 *)

Digits == <<"0", "1", "2", "3", "4", "5", "6", "7", "8", "9">>
HexLower == Digits \o <<"a", "b", "c", "d", "e", "f">>
HexUpper == Digits \o <<"A", "B", "C", "D", "E", "F">>

\* The characters that occur in the modelled strings; a character's code is
\* its position here.
Alphabet == HexLower \o <<"A", "B", "C", "D", "E", "F">> \o
            <<"t", "v", "=", ",", " ", ".", "-", "+", "N", "w", "x", "z",
              "{", "}", ":", "\"", "i", "y", "p", "n", "u", "l", "h", "s",
              "/", "k", "g", "r">>

Range(s) == {s[i] : i \in DOMAIN s}

\* Position of the first c in s from position i on, 0 when there is none
RECURSIVE FindFrom(_, _, _)
FindFrom(c, s, i) == IF i > Len(s) THEN 0 ELSE IF s[i] = c THEN i ELSE FindFrom(c, s, i + 1)

\* String.prototype.indexOf, counted from 1, 0 when c does not occur
IndexOf(c, s) == FindFrom(c, s, 1)

AlphabetCode == [c \in Range(Alphabet) |-> IndexOf(c, Alphabet)]

CharCode(c) == AlphabetCode[c]

IsWhitespace(c) == c = " "

\* String.prototype.trim
RECURSIVE TrimStart(_)
TrimStart(s) == IF s # <<>> /\ IsWhitespace(Head(s)) THEN TrimStart(Tail(s)) ELSE s

RECURSIVE TrimEnd(_)
TrimEnd(s) == IF s # <<>> /\ IsWhitespace(s[Len(s)]) THEN TrimEnd(SubSeq(s, 1, Len(s) - 1)) ELSE s

Trim(s) == TrimEnd(TrimStart(s))

\* String.prototype.startsWith
StartsWith(s, prefix) == Len(s) >= Len(prefix) /\ SubSeq(s, 1, Len(prefix)) = prefix

\* String.prototype.split with a one-character separator: always at least
\* one part, the empty string splits into one empty part.
RECURSIVE Split(_, _)
Split(s, sep) ==
  LET i == IndexOf(sep, s)
  IN IF i = 0 THEN <<s>>
     ELSE <<SubSeq(s, 1, i - 1)>> \o Split(SubSeq(s, i + 1, Len(s)), sep)

\* const [, value] = trimmed.split("="): the second part, undefined (None)
\* when there is none.
SecondPart(trimmed) ==
  LET ps == Split(trimmed, "=")
  IN IF Len(ps) >= 2 THEN Some(ps[2]) ELSE None

\* JavaScript truthiness of a string | undefined
Truthy(o) == IsSome(o) /\ Get(o) # <<>>

----------------------------------------------------------------------------
(* Numbers: parseInt(text, 10) and the template literal `${number}`.       *)

NaN == [nan |-> TRUE, val |-> 0]
Num(n) == [nan |-> FALSE, val |-> n]

IsDigit(c) == c \in Range(Digits)
DigitVal(c) == IndexOf(c, Digits) - 1

RECURSIVE LeadingDigits(_)
LeadingDigits(s) ==
  IF s # <<>> /\ IsDigit(Head(s)) THEN <<Head(s)>> \o LeadingDigits(Tail(s)) ELSE <<>>

RECURSIVE DigitsValue(_)
DigitsValue(ds) ==
  IF ds = <<>> THEN 0 ELSE 10 * DigitsValue(SubSeq(ds, 1, Len(ds) - 1)) + DigitVal(ds[Len(ds)])

\* parseInt(text, 10): leading whitespace is skipped, an optional sign is
\* read, then the longest run of decimal digits; NaN when there is none.
parseInt(text) ==
  LET t == TrimStart(text)
      neg == t # <<>> /\ Head(t) = "-"
      signed == t # <<>> /\ Head(t) \in {"-", "+"}
      ds == LeadingDigits(IF signed THEN Tail(t) ELSE t)
  IN IF ds = <<>> THEN NaN
     ELSE Num(IF neg THEN 0 - DigitsValue(ds) ELSE DigitsValue(ds))

RECURSIVE NatToString(_)
NatToString(n) ==
  IF n < 10 THEN <<Digits[n + 1]>> ELSE NatToString(n \div 10) \o <<Digits[(n % 10) + 1]>>

\* `${timestamp}`: Number.prototype.toString of an integer or NaN
NumberToString(x) ==
  IF x.nan THEN <<"N", "a", "N">>
  ELSE IF x.val < 0 THEN <<"-">> \o NatToString(0 - x.val)
  ELSE NatToString(x.val)

\* Math.abs(a - b) > tolerance: every comparison with NaN is false
AbsDiffGreater(a, b, tolerance) ==
  IF b.nan THEN FALSE
  ELSE (IF a >= b.val THEN a - b.val ELSE b.val - a) > tolerance

----------------------------------------------------------------------------
(* The hex codec of Buffer and the MAC of crypto.                          *)

Bytes == 0..255

\* digest("hex"): two lower-case hex digits per byte
HexEncode(bytes) ==
  [i \in 1..(2 * Len(bytes)) |->
     IF i % 2 = 1 THEN HexLower[(bytes[(i + 1) \div 2] \div 16) + 1]
     ELSE HexLower[(bytes[i \div 2] % 16) + 1]]

\* value of a hex digit of either case, -1 for any other character
HexValue ==
  [c \in Range(HexLower) \cup Range(HexUpper) |->
     IF IndexOf(c, HexLower) > 0 THEN IndexOf(c, HexLower) - 1 ELSE IndexOf(c, HexUpper) - 1]

Unhex(c) == IF c \in DOMAIN HexValue THEN HexValue[c] ELSE 0 - 1

\* Buffer.from(text, "hex"): decodes pair by pair, stops at the first pair
\* holding a character that is no hex digit, and drops a trailing odd
\* character.
\* Number of leading pairs of hex digits of text from pair i on
RECURSIVE HexPairs(_, _)
HexPairs(text, i) ==
  IF 2 * i > Len(text) THEN 0
  ELSE IF Unhex(text[2 * i - 1]) < 0 \/ Unhex(text[2 * i]) < 0 THEN 0
  ELSE 1 + HexPairs(text, i + 1)

HexDecode(text) ==
  [i \in 1..HexPairs(text, 1) |-> 16 * Unhex(text[2 * i - 1]) + Unhex(text[2 * i])]

\* Length in bytes of a SHA-256 digest
DigestLen == 32

Codes(s) == [i \in DOMAIN s |-> CharCode(s[i])]

Zeros(n) == [i \in 1..n |-> 0]

\* createHmac("sha256", key).update(message).digest(): the MAC is treated
\* as injective.  The digest is the fixed-length encoding of the key and the
\* message (lengths, then character codes, zero padded), which is injective
\* on all keys and messages with Len(key) + Len(message) + 2 <= DigestLen.
Hmac(key, message) ==
  LET body == <<Len(key), Len(message)>> \o Codes(key) \o Codes(message)
  IN body \o Zeros(DigestLen - Len(body))

----------------------------------------------------------------------------
(* parseStripeSignatureHeader                                              *)

\* Mutant: the last valued t= segment gives the timestamp
LastTimestamp(parts) ==
  LET valued == {i \in DOMAIN parts :
                   StartsWith(Trim(parts[i]), <<"t", "=">>) /\ Truthy(SecondPart(Trim(parts[i])))}
  IN IF valued = {} THEN None
     ELSE SecondPart(Trim(parts[CHOOSE i \in valued : \A j \in valued : j <= i]))

\* The first loop: the value of the first segment that starts with "t=" and
\* whose value is truthy; None when there is no such segment.
RECURSIVE FirstTimestamp(_)
FirstTimestamp(parts) ==
  IF parts = <<>> THEN None
  ELSE LET trimmed == Trim(Head(parts))
           value == SecondPart(trimmed)
       IN IF StartsWith(trimmed, <<"t", "=">>) /\ Truthy(value) THEN value
          ELSE FirstTimestamp(Tail(parts))

\* The second loop: one entry per segment that starts with "v1=" and whose
\* value is truthy, in header order.
RECURSIVE V1Entries(_, _)
V1Entries(parts, timestamp) ==
  IF parts = <<>> THEN <<>>
  ELSE LET trimmed == Trim(Head(parts))
           value == SecondPart(trimmed)
           rest == V1Entries(Tail(parts), timestamp)
       IN IF StartsWith(trimmed, <<"v", "1", "=">>) /\ Truthy(value)
          THEN <<[timestamp |-> timestamp, signature |-> Get(value)]>> \o rest
          ELSE rest

\* Mutant: the entries are returned also when no timestamp was found
parseWithoutTimestampCheck(signatureHeader) ==
  LET parts == Split(signatureHeader, ",")
  IN V1Entries(parts, OrEmpty(FirstTimestamp(parts)))

parseStripeSignatureHeader(signatureHeader) ==
  LET parts == Split(signatureHeader, ",")
      timestamp == FirstTimestamp(parts)
  IN IF ~Truthy(timestamp) THEN <<>>
     ELSE V1Entries(parts, Get(timestamp))

----------------------------------------------------------------------------
(* verifyStripeSignature                                                   *)

TOLERANCE == 300

\* Mutant: the comparison is >= instead of >
OutsideToleranceOffByOne(now, timestamp) == AbsDiffGreater(now, timestamp, TOLERANCE - 1)

\* if (Math.abs(currentTimestamp - timestamp) > TOLERANCE) continue;
OutsideTolerance(now, timestamp) == AbsDiffGreater(now, timestamp, TOLERANCE)

\* const signedPayload = `${timestamp}.${rawBody}`
SignedPayload(timestamp, body) == NumberToString(timestamp) \o <<".">> \o body

\* hmac.digest("hex")
ExpectedSignature(secret, timestamp, body) == HexEncode(Hmac(secret, SignedPayload(timestamp, body)))

\* Mutant: only the lengths of the two buffers are compared
BuffersSameLength(expectedSignature, signature) ==
  Len(HexDecode(expectedSignature)) = Len(HexDecode(signature))

\* The length check and timingSafeEqual on the two decoded buffers
BuffersEqual(expectedSignature, signature) ==
  LET expectedBuffer == HexDecode(expectedSignature)
      receivedBuffer == HexDecode(signature)
  IN Len(expectedBuffer) = Len(receivedBuffer) /\ expectedBuffer = receivedBuffer

\* Mutant: the loop returns invalid at the first candidate that does not match
VerifyFirstOnly(es, i, body, secret, now, hashed) ==
  IF i > Len(es) THEN [valid |-> FALSE, timestamp |-> None, hashed |-> hashed]
  ELSE LET timestamp == parseInt(es[i].timestamp)
       IN [valid |-> ~AbsDiffGreater(now, timestamp, TOLERANCE)
                     /\ HexDecode(HexEncode(Hmac(secret, NumberToString(timestamp) \o <<".">> \o body))) = HexDecode(es[i].signature),
           timestamp |-> Some(timestamp),
           hashed |-> hashed]

\* The for loop over the entries from entry i on; hashed collects the
\* messages given to hmac.update so far.
RECURSIVE VerifyLoop(_, _, _, _, _, _)
VerifyLoop(es, i, body, secret, now, hashed) ==
  IF i > Len(es) THEN [valid |-> FALSE, timestamp |-> None, hashed |-> hashed]
  ELSE LET timestamp == parseInt(es[i].timestamp)
           signature == es[i].signature
       IN IF OutsideTolerance(now, timestamp)
          THEN VerifyLoop(es, i + 1, body, secret, now, hashed)
          ELSE LET signedPayload == SignedPayload(timestamp, body)
                   expectedSignature == ExpectedSignature(secret, timestamp, body)
                   hashed2 == Append(hashed, signedPayload)
               IN IF BuffersEqual(expectedSignature, signature)
                  THEN [valid |-> TRUE, timestamp |-> Some(timestamp), hashed |-> hashed2]
                  ELSE VerifyLoop(es, i + 1, body, secret, now, hashed2)

\* now is Math.floor(Date.now() / 1000) as read by the call
verifyStripeSignature(body, signatureHeader, secret, now) ==
  LET es == parseStripeSignatureHeader(signatureHeader)
  IN IF Len(es) = 0 THEN [valid |-> FALSE, timestamp |-> None, hashed |-> <<>>]
     ELSE VerifyLoop(es, 1, body, secret, now, <<>>)

----------------------------------------------------------------------------
(* safeJsonParseForLog                                                     *)

Unquote(s) ==
  IF Len(s) >= 2 /\ Head(s) = "\"" /\ s[Len(s)] = "\"" THEN Some(SubSeq(s, 2, Len(s) - 1)) ELSE None

\* A member "key":value of a flat object; None when it is malformed
JsonMember(text) ==
  LET kv == Split(text, ":")
  IN IF Len(kv) # 2 \/ IsNone(Unquote(Trim(kv[1]))) \/ Trim(kv[2]) = <<>> THEN None
     ELSE Some([key |-> Get(Unquote(Trim(kv[1]))), value |-> Trim(kv[2])])

\* JSON.parse restricted to the payloads of the model: a flat object of
\* "key":value members parses, any other text throws.
JsonParse(text) ==
  LET t == Trim(text)
      inner == IF Len(t) >= 2 THEN Trim(SubSeq(t, 2, Len(t) - 1)) ELSE <<>>
      members == IF inner = <<>> THEN <<>> ELSE Split(inner, ",")
  IN IF Len(t) < 2 \/ Head(t) # "{" \/ t[Len(t)] # "}" THEN None
     ELSE IF \E i \in DOMAIN members : IsNone(JsonMember(members[i])) THEN None
     ELSE Some([i \in DOMAIN members |-> Get(JsonMember(members[i]))])

\* event[name]: the value of the last member with that key, else undefined
Field(event, name) ==
  IF \E i \in DOMAIN event : event[i].key = name
  THEN LET i == CHOOSE k \in DOMAIN event : event[k].key = name /\ \A j \in DOMAIN event : event[j].key = name => j <= k
       IN Some(event[i].value)
  ELSE None

safeJsonParseForLog(body) ==
  LET event == JsonParse(body)
  IN IF IsNone(event) THEN [type |-> None, id |-> None]
     ELSE [type |-> Field(Get(event), <<"t", "y", "p", "e">>), id |-> Field(Get(event), <<"i", "d">>)]

----------------------------------------------------------------------------
(* forwardToSupabase: configuration, headers and body of the outbound call  *)

\* new URL(text).protocol: the scheme with its colon; None when the text
\* has no scheme and the constructor throws.
UrlProtocol(text) ==
  LET t == Trim(text)
      i == IndexOf(":", t)
  IN IF i <= 1 THEN None ELSE Some(SubSeq(t, 1, i))

Https == <<"h", "t", "t", "p", "s", ":">>
Http == <<"h", "t", "t", "p", ":">>

\* value?.trim()
TrimOpt(o) == IF IsSome(o) THEN Some(Trim(Get(o))) ELSE None

Failure(status, forwardError, gatewayError) ==
  [success |-> FALSE, status |-> status, forwardError |-> forwardError, gatewayError |-> gatewayError]

Success(status) ==
  [success |-> TRUE, status |-> Some(status), forwardError |-> None, gatewayError |-> None]

\* Variant 1, lines 139-146: the early return, None when the call goes on
ConfigError1(e) ==
  IF ~Truthy(e.SUPABASE_INTERNAL_WEBHOOK_URL) \/ ~Truthy(e.SUPABASE_SERVICE_ROLE_KEY)
  THEN Some(Failure(None, None, None))
  ELSE None

\* Variant 2, lines 452-479: the early returns, None when the call goes on
ConfigError2(e) ==
  LET supabaseUrl == Trim(OrEmpty(e.SUPABASE_INTERNAL_WEBHOOK_URL))
      internalEdgeToken == TrimOpt(e.INTERNAL_EDGE_AUTH_TOKEN)
  IN IF ~Truthy(internalEdgeToken)
     THEN Some(Failure(None, Some("INTERNAL_EDGE_AUTH_TOKEN missing"), None))
     ELSE IF supabaseUrl = <<>>
     THEN Some(Failure(None, Some("Server configuration error"), None))
     ELSE IF IsNone(UrlProtocol(supabaseUrl))
     THEN Some(Failure(None, Some("Invalid SUPABASE_INTERNAL_WEBHOOK_URL"), None))
     ELSE IF Get(UrlProtocol(supabaseUrl)) # Https
     THEN Some(Failure(None, Some("SUPABASE_INTERNAL_WEBHOOK_URL must use https protocol"), None))
     ELSE None

ConfigError(v, e) == IF v = 1 THEN ConfigError1(e) ELSE ConfigError2(e)

\* JSON.stringify({ ping: true, ts: new Date().toISOString() }): a synthetic
\* text that is none of the inbound payloads
PingBody == <<"{", "p", "i", "n", "g", "}">>

\* Variant 2, lines 492-494
ForwardBody2(body, pingMode) == IF pingMode THEN PingBody ELSE body

\* Variant 1, line 167
ForwardBody1(body) == body

\* process.env.SUPABASE_PING_MODE === "true"
PingMode(e) == e.SUPABASE_PING_MODE = Some("true")

\* The fetch call of variant 1, lines 148-169
FetchCall1(e, body, signature) ==
  [url |-> Get(e.SUPABASE_INTERNAL_WEBHOOK_URL),
   body |-> ForwardBody1(body),
   contentType |-> "application/json",
   authorization |-> Get(e.SUPABASE_SERVICE_ROLE_KEY),
   internalSecret |-> IF Truthy(e.INTERNAL_WEBHOOK_SHARED_SECRET) THEN e.INTERNAL_WEBHOOK_SHARED_SECRET ELSE None,
   stripeSignature |-> signature]

\* The fetch call of variant 2, lines 481-505.  The headers object names the
\* signature header twice, "stripe-signature" and "Stripe-Signature": fetch
\* takes them as one header and joins the two values with ", ".
FetchCall2(e, body, signature, contentType, pingMode) ==
  [url |-> Trim(Get(e.SUPABASE_INTERNAL_WEBHOOK_URL)),
   body |-> ForwardBody2(body, pingMode),
   contentType |-> IF contentType # "" THEN contentType ELSE "application/json",
   authorization |-> Trim(Get(e.INTERNAL_EDGE_AUTH_TOKEN)),
   internalSecret |-> IF Truthy(e.INTERNAL_WEBHOOK_SHARED_SECRET) THEN e.INTERNAL_WEBHOOK_SHARED_SECRET ELSE None,
   stripeSignature |-> signature \o <<",", " ">> \o signature]

\* fetch rejects before any network activity when the URL does not parse or
\* its scheme is neither http nor https
FetchRejectsUrl(url) ==
  IsNone(UrlProtocol(url)) \/ (IsSome(UrlProtocol(url)) /\ Get(UrlProtocol(url)) \notin {Http, Https})

\* text.length > 300 ? text.substring(0, 300) + "..." : text
LogLimit == 300
LogText(text) == IF Len(text) > LogLimit THEN SubSeq(text, 1, LogLimit) \o <<".", ".", ".">> ELSE text

\* errorBody when response.text() rejects
UnableToRead == <<"(unable to read response body)">>

\* The characters a header value must not hold
HeaderBreaks == {"\n", "\r"}

RECURSIVE StripBreaksStart(_)
StripBreaksStart(s) ==
  IF s # <<>> /\ Head(s) \in HeaderBreaks \cup {" ", "\t"} THEN StripBreaksStart(Tail(s)) ELSE s

RECURSIVE StripBreaksEnd(_)
StripBreaksEnd(s) ==
  IF s # <<>> /\ s[Len(s)] \in HeaderBreaks \cup {" ", "\t"}
  THEN StripBreaksEnd(SubSeq(s, 1, Len(s) - 1)) ELSE s

\* fetch normalizes a header value, stripping the white space at both ends,
\* and refuses a value that still holds a line break
HeaderValueRefused(value) ==
  \E c \in Range(StripBreaksEnd(StripBreaksStart(value))) : c \in HeaderBreaks

\* Authorization: `Bearer ${credential}`
Bearer(credential) == <<"B", "e", "a", "r", "e", "r", " ">> \o credential

\* The header values of a fetch call in the order variant 2 lists them;
\* variant 1 discards the error of fetch, so that its order does not show
HeaderValues(call) ==
  <<call.stripeSignature, Bearer(call.authorization)>> \o
  (IF IsSome(call.internalSecret) THEN <<Get(call.internalSecret)>> ELSE <<>>)

\* fetch rejects before any network activity when it refuses a header value
FetchRejectsHeaders(call) == \E i \in DOMAIN HeaderValues(call) : HeaderValueRefused(HeaderValues(call)[i])

\* The first header value fetch refuses
RefusedHeaderValue(call) ==
  HeaderValues(call)[CHOOSE i \in DOMAIN HeaderValues(call) :
                       /\ HeaderValueRefused(HeaderValues(call)[i])
                       /\ \A j \in 1..(i - 1) : ~HeaderValueRefused(HeaderValues(call)[j])]

\* err.message of the errors fetch rejects with: a fixed text, and for a
\* refused header value a text that quotes the value
Message(text) == [text |-> text, quoted |-> None]
InvalidHeaderMessage(value) == [text |-> "is an invalid header value.", quoted |-> Some(value)]

\* c?.code ?? c?.errno?.toString() ?? c?.syscall ?? undefined of an error
\* without a cause
NoCause == "undefined"

\* The catch block of forwardToSupabase: variant 1 lines 189-196, variant 2
\* lines 531-560
CatchFetchError(v, name, message, causeCode) ==
  IF v = 1 THEN Failure(None, None, None)
  ELSE Failure(Some(502), None, Some([name |-> name, message |-> message, causeCode |-> causeCode]))

\* Mutant: every status below 400 counts as a success
ResponseOkBelow400(status) == status >= 200 /\ status < 400

\* response.ok
ResponseOk(status) == status >= 200 /\ status <= 299

----------------------------------------------------------------------------
(* Responses of the handler                                                *)

OkBody == [ok |-> TRUE, error |-> "", details |-> None]
ErrorBody(message) == [ok |-> FALSE, error |-> message, details |-> None]
GatewayBody(g) == [ok |-> FALSE, error |-> "Failed to forward to Supabase", details |-> Some(g)]

Resp(status, body) == Some([status |-> status, body |-> body])

MissingHeaderResponse == Resp(400, ErrorBody("Missing stripe-signature header"))
MissingSecretResponse == Resp(500, ErrorBody("Server configuration error"))
\* Mutant: an invalid signature is answered 403
InvalidSignatureForbidden == Resp(403, ErrorBody("Invalid signature"))
InvalidSignatureResponse == Resp(400, ErrorBody("Invalid signature"))
InternalErrorResponse == Resp(500, ErrorBody("Internal server error"))
\* Mutant: GET is answered like a forwarded POST
MethodNotAllowedAsOk == Resp(200, OkBody)
MethodNotAllowedResponse == Resp(405, ErrorBody("Method not allowed"))

\* Variant 1, lines 257-278
ForwardResponse1(fr) ==
  IF ~fr.success THEN Resp(500, ErrorBody("Failed to forward webhook"))
  ELSE Resp(200, OkBody)

\* Variant 2, lines 634-684
ForwardResponse2(fr) ==
  IF ~fr.success
  THEN IF IsSome(fr.gatewayError) THEN Resp(502, GatewayBody(Get(fr.gatewayError)))
       ELSE IF IsSome(fr.forwardError) THEN Resp(500, ErrorBody(Get(fr.forwardError)))
       ELSE Resp(500, ErrorBody("Failed to forward webhook"))
  ELSE Resp(200, OkBody)

\* Mutant: every forward outcome is answered 200
ForwardResponseAlwaysOk(v, fr) == Resp(200, OkBody)
ForwardResponse(v, fr) == IF v = 1 THEN ForwardResponse1(fr) ELSE ForwardResponse2(fr)

\* Mutant: the check of the header is left out
HeaderNeverMissing(signature) == FALSE

\* if (!stripeSignature): null and the empty string are both falsy
HeaderMissing(signature) == ~Truthy(signature)

\* Mutant: the check of the secret is left out
SecretNeverMissing(e) == FALSE

\* if (!webhookSecret)
SecretMissing(e) == ~Truthy(e.STRIPE_WEBHOOK_SECRET)

\* Mutant: the result of the verification is ignored
VerificationNeverFailed(v) == FALSE

\* if (!verification.valid)
VerificationFailed(v) == ~v.valid

----------------------------------------------------------------------------
(* The handler, one action per step between two suspension points or        *)
(* decisions; Reqs is the set of requests of the behaviour.                *)

Reqs == DOMAIN pc

\* POST is called and reaches its try block: in variant 2 the statements
\* before it (requestId, startedAt, the handler_enter log line) have run
\* without a fault.
Enter(r) ==
  /\ pc[r] = "Enter"
  /\ request[r].method = "POST"
  /\ pc' = [pc EXCEPT ![r] = "ReceivingBody"]
  /\ UNCHANGED <<errorBody, fault, variant, env, request, rawBody, stripeSignature, entries, currentTimestamp,
                 signedPayloads, verification, eventInfo, outbound, timer, downstream,
                 forwardResult, response>>

\* Variant 2, lines 564-571: randomUUID(), new Date() and console.log run
\* before the try block of POST; a fault raised there (randomUUID is not
\* among the names line 303 imports) leaves the handler as an exception and
\* no response is built.  Variant 1 has no statement before its try block.
EnterFails(r) ==
  /\ pc[r] = "Enter"
  /\ request[r].method = "POST"
  /\ variant = 2
  /\ fault' = [fault EXCEPT ![r] = Some("handler_enter")]
  /\ pc' = [pc EXCEPT ![r] = "Thrown"]
  /\ UNCHANGED <<errorBody, variant, env, request, rawBody, stripeSignature, entries, currentTimestamp,
                 signedPayloads, verification, eventInfo, outbound, timer, downstream,
                 forwardResult, response>>

\* const rawBody = await request.text() resolves
ReadBody(r) ==
  /\ pc[r] = "ReceivingBody"
  /\ rawBody' = [rawBody EXCEPT ![r] = request[r].body]
  /\ pc' = [pc EXCEPT ![r] = "HeaderCheck"]
  /\ UNCHANGED <<errorBody, fault, variant, env, request, stripeSignature, entries, currentTimestamp,
                 signedPayloads, verification, eventInfo, outbound, timer, downstream,
                 forwardResult, response>>

\* await request.text() rejects: the catch block of POST answers
ReadBodyFails(r) ==
  /\ pc[r] = "ReceivingBody"
  /\ fault' = [fault EXCEPT ![r] = Some("request.text")]
  /\ response' = [response EXCEPT ![r] = InternalErrorResponse]
  /\ pc' = [pc EXCEPT ![r] = "Done"]
  /\ UNCHANGED <<errorBody, variant, env, request, rawBody, stripeSignature, entries, currentTimestamp,
                 signedPayloads, verification, eventInfo, outbound, timer, downstream,
                 forwardResult>>

\* request.headers.get("stripe-signature") and the check of the header
HeaderCheck(r) ==
  /\ pc[r] = "HeaderCheck"
  /\ stripeSignature' = [stripeSignature EXCEPT ![r] = request[r].signature]
  /\ IF HeaderMissing(request[r].signature)
     THEN /\ response' = [response EXCEPT ![r] = MissingHeaderResponse]
          /\ pc' = [pc EXCEPT ![r] = "Done"]
     ELSE /\ pc' = [pc EXCEPT ![r] = "SecretCheck"]
          /\ UNCHANGED response
  /\ UNCHANGED <<errorBody, fault, variant, env, request, rawBody, entries, currentTimestamp, signedPayloads,
                 verification, eventInfo, outbound, timer, downstream, forwardResult>>

\* process.env.STRIPE_WEBHOOK_SECRET and the check of the secret
SecretCheck(r) ==
  /\ pc[r] = "SecretCheck"
  /\ IF SecretMissing(env)
     THEN /\ response' = [response EXCEPT ![r] = MissingSecretResponse]
          /\ pc' = [pc EXCEPT ![r] = "Done"]
     ELSE /\ pc' = [pc EXCEPT ![r] = "Verifying"]
          /\ UNCHANGED response
  /\ UNCHANGED <<errorBody, fault, variant, env, request, rawBody, stripeSignature, entries, currentTimestamp,
                 signedPayloads, verification, eventInfo, outbound, timer, downstream,
                 forwardResult>>

\* The clock values Date.now() may return, in seconds
Nows == {1000, 1001}

\* verifyStripeSignature(rawBody, stripeSignature, webhookSecret) and the
\* check of its result
Verifying(r) ==
  /\ pc[r] = "Verifying"
  /\ \E now \in Nows :
       \E v \in {verifyStripeSignature(rawBody[r], OrEmpty(stripeSignature[r]), OrEmpty(env.STRIPE_WEBHOOK_SECRET), now)} :
          /\ entries' = [entries EXCEPT ![r] = parseStripeSignatureHeader(OrEmpty(stripeSignature[r]))]
          /\ currentTimestamp' = [currentTimestamp EXCEPT ![r] = now]
          /\ signedPayloads' = [signedPayloads EXCEPT ![r] = v.hashed]
          /\ verification' = [verification EXCEPT ![r] = Some([valid |-> v.valid, timestamp |-> v.timestamp])]
          /\ IF VerificationFailed(v)
             THEN /\ response' = [response EXCEPT ![r] = InvalidSignatureResponse]
                  /\ pc' = [pc EXCEPT ![r] = "Done"]
             ELSE /\ pc' = [pc EXCEPT ![r] = "Introspect"]
                  /\ UNCHANGED response
  /\ UNCHANGED <<errorBody, fault, variant, env, request, rawBody, stripeSignature, eventInfo, outbound, timer,
                 downstream, forwardResult>>

\* Mutant: a payload without type and id is rejected after verification
IntrospectRejectsUnparsed(r) ==
  /\ pc[r] = "Introspect"
  /\ eventInfo' = [eventInfo EXCEPT ![r] = Some(safeJsonParseForLog(rawBody[r]))]
  /\ IF safeJsonParseForLog(rawBody[r]) = [type |-> None, id |-> None]
     THEN /\ response' = [response EXCEPT ![r] = InvalidSignatureResponse]
          /\ pc' = [pc EXCEPT ![r] = "Done"]
     ELSE /\ pc' = [pc EXCEPT ![r] = "Forwarding"]
          /\ UNCHANGED response
  /\ UNCHANGED <<errorBody, fault, variant, env, request, rawBody, stripeSignature, entries,
                 currentTimestamp, signedPayloads, verification, outbound, timer, downstream,
                 forwardResult>>

\* const eventInfo = safeJsonParseForLog(rawBody) and the log line
Introspect(r) ==
  /\ pc[r] = "Introspect"
  /\ eventInfo' = [eventInfo EXCEPT ![r] = Some(safeJsonParseForLog(rawBody[r]))]
  /\ pc' = [pc EXCEPT ![r] = "Forwarding"]
  /\ UNCHANGED <<errorBody, fault, variant, env, request, rawBody, stripeSignature, entries, currentTimestamp,
                 signedPayloads, verification, outbound, timer, downstream, forwardResult,
                 response>>

\* request.headers.get("content-type") || "application/json"
ContentType(req) == IF IsSome(req.contentType) /\ Get(req.contentType) # "" THEN Get(req.contentType) ELSE "application/json"

\* Mutant: the body is kept in a variable of the module, which the handler
\* of another request overwrites once it has read its own body
FetchCallSharedBody(r) ==
  LET others == {q \in DOMAIN pc : q # r /\ rawBody[q] # <<>>}
      body == IF others = {} THEN rawBody[r] ELSE rawBody[CHOOSE q \in others : TRUE]
  IN IF variant = 1 THEN FetchCall1(env, body, OrEmpty(stripeSignature[r]))
     ELSE FetchCall2(env, body, OrEmpty(stripeSignature[r]), ContentType(request[r]), PingMode(env))

\* The fetch call forwardToSupabase issues for request r
FetchCall(r) ==
  IF variant = 1 THEN FetchCall1(env, rawBody[r], OrEmpty(stripeSignature[r]))
  ELSE FetchCall2(env, rawBody[r], OrEmpty(stripeSignature[r]), ContentType(request[r]), PingMode(env))

\* forwardToSupabase up to its await: a configuration error returns at once;
\* otherwise the timer is armed and fetch is called, which either rejects
\* at once on its URL (variant 1 only, variant 2 has checked it) or on a
\* header value, or sends the request.
StartForward(r) ==
  /\ pc[r] = "Forwarding"
  /\ IF IsSome(ConfigError(variant, env))
     THEN /\ forwardResult' = [forwardResult EXCEPT ![r] = ConfigError(variant, env)]
          /\ pc' = [pc EXCEPT ![r] = "Forwarded"]
          /\ UNCHANGED <<outbound, timer>>
     ELSE IF FetchRejectsUrl(FetchCall(r).url)
     THEN /\ timer' = [timer EXCEPT ![r] = "armed"]
          /\ forwardResult' = [forwardResult EXCEPT ![r] =
                 Some(CatchFetchError(variant, "TypeError", Message("Invalid URL"), "ERR_INVALID_URL"))]
          /\ pc' = [pc EXCEPT ![r] = "Forwarded"]
          /\ UNCHANGED outbound
     ELSE IF FetchRejectsHeaders(FetchCall(r))
     THEN /\ timer' = [timer EXCEPT ![r] = "armed"]
          /\ forwardResult' = [forwardResult EXCEPT ![r] =
                 Some(CatchFetchError(variant, "TypeError", InvalidHeaderMessage(RefusedHeaderValue(FetchCall(r))), NoCause))]
          /\ pc' = [pc EXCEPT ![r] = "Forwarded"]
          /\ UNCHANGED outbound
     ELSE /\ timer' = [timer EXCEPT ![r] = "armed"]
          /\ outbound' = [outbound EXCEPT ![r] = Append(@, FetchCall(r))]
          /\ pc' = [pc EXCEPT ![r] = "Fetching"]
          /\ UNCHANGED forwardResult
  /\ UNCHANGED <<errorBody, fault, variant, env, request, rawBody, stripeSignature, entries, currentTimestamp,
                 signedPayloads, verification, eventInfo, downstream, response>>

\* The statuses the downstream endpoint may answer with
Statuses == {200, 204, 299, 300, 404, 500}

\* The downstream endpoint answers: clearTimeout, then the check of the
\* status
FetchResponds(r, status) ==
  /\ pc[r] = "Fetching"
  /\ timer' = [timer EXCEPT ![r] = "cleared"]
  /\ downstream' = [downstream EXCEPT ![r] = Some(status)]
  /\ IF ResponseOk(status)
     THEN /\ forwardResult' = [forwardResult EXCEPT ![r] = Some(Success(status))]
          /\ pc' = [pc EXCEPT ![r] = "Forwarded"]
     ELSE /\ pc' = [pc EXCEPT ![r] = "ReadingErrorBody"]
          /\ UNCHANGED forwardResult
  /\ UNCHANGED <<errorBody, fault, variant, env, request, rawBody, stripeSignature, entries, currentTimestamp,
                 signedPayloads, verification, eventInfo, outbound, response>>

\* The bodies the downstream endpoint may send with a rejection: empty,
\* short, and longer than the limit of the log line
DownstreamBodies == {<<>>, <<"e">>, [i \in 1..(LogLimit + 1) |-> "e"]}

\* await response.text() settles: resolved with the text of the body, which
\* is cut to LogLimit characters for the log line, or rejected (None); the
\* result of forwardToSupabase carries the status only
ReadErrorBody(r) ==
  /\ pc[r] = "ReadingErrorBody"
  /\ \E text \in {None} \cup {Some(b) : b \in DownstreamBodies} :
       errorBody' = [errorBody EXCEPT ![r] = Some(IF IsSome(text) THEN LogText(Get(text)) ELSE UnableToRead)]
  /\ forwardResult' = [forwardResult EXCEPT ![r] = Some(Failure(downstream[r], None, None))]
  /\ pc' = [pc EXCEPT ![r] = "Forwarded"]
  /\ UNCHANGED <<fault, variant, env, request, rawBody, stripeSignature, entries, currentTimestamp,
                 signedPayloads, verification, eventInfo, outbound, timer, downstream, response>>

\* The causes of a connection-level failure of fetch
Causes == {"ENOTFOUND", "ECONNRESET", "ERR_TLS"}

\* fetch rejects on a connection-level failure: the catch block runs, the
\* timer is left armed
FetchFails(r, cause) ==
  /\ pc[r] = "Fetching"
  /\ forwardResult' = [forwardResult EXCEPT ![r] = Some(CatchFetchError(variant, "TypeError", Message("fetch failed"), cause))]
  /\ pc' = [pc EXCEPT ![r] = "Forwarded"]
  /\ UNCHANGED <<errorBody, fault, variant, env, request, rawBody, stripeSignature, entries, currentTimestamp,
                 signedPayloads, verification, eventInfo, outbound, timer, downstream, response>>

\* The timer expires and calls controller.abort(): a pending fetch is
\* aborted, it rejects with an AbortError and the catch block runs; on a
\* call that has ended the abort has no effect
TimerFires(r) ==
  /\ timer[r] = "armed"
  /\ timer' = [timer EXCEPT ![r] = IF pc[r] = "Fetching" THEN "aborted" ELSE "fired"]
  /\ IF pc[r] = "Fetching"
     THEN /\ forwardResult' = [forwardResult EXCEPT ![r] = Some(CatchFetchError(variant, "AbortError", Message("This operation was aborted"), NoCause))]
          /\ pc' = [pc EXCEPT ![r] = "Forwarded"]
     ELSE UNCHANGED <<forwardResult, pc>>
  /\ UNCHANGED <<errorBody, fault, variant, env, request, rawBody, stripeSignature, entries, currentTimestamp,
                 signedPayloads, verification, eventInfo, outbound, downstream, response>>

\* Mutant: a failed forward is tried once more
RespondRetries(r) ==
  /\ pc[r] = "Forwarded"
  /\ IF ~Get(forwardResult[r]).success /\ Len(outbound[r]) = 1
     THEN /\ pc' = [pc EXCEPT ![r] = "Forwarding"]
          /\ forwardResult' = [forwardResult EXCEPT ![r] = None]
          /\ downstream' = [downstream EXCEPT ![r] = None]
          /\ UNCHANGED response
     ELSE /\ response' = [response EXCEPT ![r] = ForwardResponse(variant, Get(forwardResult[r]))]
          /\ pc' = [pc EXCEPT ![r] = "Done"]
          /\ UNCHANGED <<forwardResult, downstream>>
  /\ UNCHANGED <<errorBody, fault, variant, env, request, rawBody, stripeSignature, entries, currentTimestamp,
                 signedPayloads, verification, eventInfo, outbound, timer>>

\* forwardToSupabase has returned: POST maps its result to the response
Respond(r) ==
  /\ pc[r] = "Forwarded"
  /\ response' = [response EXCEPT ![r] = ForwardResponse(variant, Get(forwardResult[r]))]
  /\ pc' = [pc EXCEPT ![r] = "Done"]
  /\ UNCHANGED <<errorBody, fault, variant, env, request, rawBody, stripeSignature, entries, currentTimestamp,
                 signedPayloads, verification, eventInfo, outbound, timer, downstream,
                 forwardResult>>

\* GET is called
GET(r) ==
  /\ pc[r] = "Enter"
  /\ request[r].method = "GET"
  /\ response' = [response EXCEPT ![r] = MethodNotAllowedResponse]
  /\ pc' = [pc EXCEPT ![r] = "Done"]
  /\ UNCHANGED <<errorBody, fault, variant, env, request, rawBody, stripeSignature, entries, currentTimestamp,
                 signedPayloads, verification, eventInfo, outbound, timer, downstream,
                 forwardResult>>

----------------------------------------------------------------------------
(* Inputs: secrets, payloads, headers, configurations                      *)

Secret1 == <<"w", "1">>
Secret2 == <<"w", "2">>

Payload1 == <<"{", "\"", "i", "d", "\"", ":", "1", "}">>
Payload2 == <<"{", "\"", "i", "d", "\"", ":", "2", "}">>
Payload3 == <<"x">>
Payloads == {Payload1, Payload2, Payload3}

\* The signature the sender computes: hex(HMAC-SHA256(S, ts + "." + P)) over
\* the timestamp text as it stands in the header
StripeSign(secret, tsText, body) == HexEncode(Hmac(secret, tsText \o <<".">> \o body))

TSeg(text) == <<"t", "=">> \o text
V1Seg(text) == <<"v", "1", "=">> \o text

RECURSIVE Join(_)
Join(segs) ==
  IF segs = <<>> THEN <<>>
  ELSE IF Len(segs) = 1 THEN segs[1]
  ELSE segs[1] \o <<",">> \o Join(Tail(segs))

\* t=ts,v1=signature
SignedHeader(secret, ts, body) ==
  Join(<<TSeg(NatToString(ts)), V1Seg(StripeSign(secret, NatToString(ts), body))>>)

\* Timestamps around the tolerance window of the clock values
Timestamps == {699, 700, 701, 1000, 1300, 1301, 1302}

\* A shared secret stored with a line break in it
BrokenSecret == <<"s", "\n", "t">>

\* The environments of the process
Urls == {None, Some(Https \o <<"/", "/", "h">>), Some(Http \o <<"/", "/", "h">>), Some(<<"h">>)}
Envs ==
  [STRIPE_WEBHOOK_SECRET : {None, Some(<<>>), Some(Secret1)},
   SUPABASE_INTERNAL_WEBHOOK_URL : Urls,
   SUPABASE_SERVICE_ROLE_KEY : {None, Some(<<"k">>)},
   INTERNAL_EDGE_AUTH_TOKEN : {None, Some(<<"k">>)},
   INTERNAL_WEBHOOK_SHARED_SECRET : {None, Some(<<"s">>), Some(BrokenSecret)},
   SUPABASE_PING_MODE : {None, Some("true")}]

\* The signature headers of the requests sent to the handler: absent, empty,
\* signed for either payload, signed too early, signed with another secret
HandlerHeaders ==
  {None, Some(<<>>), Some(SignedHeader(Secret1, 1000, Payload1)),
   Some(SignedHeader(Secret1, 1000, Payload2)), Some(SignedHeader(Secret1, 700, Payload1)),
   Some(SignedHeader(Secret2, 1000, Payload1))}

\* The POST requests, and a GET request
PostRequests ==
  [method : {"POST"},
   signature : HandlerHeaders,
   body : {Payload1, Payload2},
   contentType : {None, Some("text/plain")}]

GetRequests ==
  [method : {"GET"},
   signature : {None, Some(SignedHeader(Secret1, 1000, Payload1))},
   body : {Payload1},
   contentType : {None}]

Requests == PostRequests \cup GetRequests

\* The variables a variant reads: variant 1 reads SUPABASE_SERVICE_ROLE_KEY,
\* variant 2 reads INTERNAL_EDGE_AUTH_TOKEN and SUPABASE_PING_MODE instead;
\* a variable the deployed variant never reads is left unset.
EnvOf(v) ==
  IF v = 1 THEN {e \in Envs : IsNone(e.INTERNAL_EDGE_AUTH_TOKEN) /\ IsNone(e.SUPABASE_PING_MODE)}
  ELSE {e \in Envs : IsNone(e.SUPABASE_SERVICE_ROLE_KEY)}

\* The state when the requests of the set rs have just arrived
Arrived(rs) ==
  /\ pc = [r \in rs |-> "Enter"]
  /\ rawBody = [r \in rs |-> <<>>]
  /\ stripeSignature = [r \in rs |-> None]
  /\ entries = [r \in rs |-> <<>>]
  /\ currentTimestamp = [r \in rs |-> 0]
  /\ signedPayloads = [r \in rs |-> <<>>]
  /\ verification = [r \in rs |-> None]
  /\ eventInfo = [r \in rs |-> None]
  /\ outbound = [r \in rs |-> <<>>]
  /\ timer = [r \in rs |-> "unset"]
  /\ downstream = [r \in rs |-> None]
  /\ errorBody = [r \in rs |-> None]
  /\ forwardResult = [r \in rs |-> None]
  /\ response = [r \in rs |-> None]
  /\ fault = [r \in rs |-> None]

Init ==
  /\ variant \in {1, 2}
  /\ env \in EnvOf(variant)
  /\ request \in [{"r1"} -> Requests]
  /\ Arrived({"r1"})

Next ==
  \/ \E r \in Reqs : Enter(r)
  \/ \E r \in Reqs : EnterFails(r)
  \/ \E r \in Reqs : ReadBody(r)
  \/ \E r \in Reqs : ReadBodyFails(r)
  \/ \E r \in Reqs : HeaderCheck(r)
  \/ \E r \in Reqs : SecretCheck(r)
  \/ \E r \in Reqs : Verifying(r)
  \/ \E r \in Reqs : Introspect(r)
  \/ \E r \in Reqs : StartForward(r)
  \/ \E r \in Reqs, status \in Statuses : FetchResponds(r, status)
  \/ \E r \in Reqs : ReadErrorBody(r)
  \/ \E r \in Reqs, cause \in Causes : FetchFails(r, cause)
  \/ \E r \in Reqs : TimerFires(r)
  \/ \E r \in Reqs : Respond(r)
  \/ \E r \in Reqs : GET(r)

Spec == Init /\ [][Next]_vars

----------------------------------------------------------------------------
(* The verifier on its own: the handler stands at its call of               *)
(* verifyStripeSignature, with the payload, the header and the secret drawn *)
(* from the sets below.                                                    *)

\* Most v1= segments in a generated header
MaxSigs == 3

\* The timestamp the headers with several candidates carry
ManyTs == <<"1", "0", "0", "0">>

\* A v1= value that is no signature at all
Garbage == <<"z", "z">>

\* Candidate values: the sender's signature of either payload under the
\* first secret, and a malformed value
SigChoices ==
  {StripeSign(Secret1, ManyTs, Payload1), StripeSign(Secret1, ManyTs, Payload2), Garbage}

\* t=ts,v1=sigs[1],...,v1=sigs[n]
ManySigs(tsText, sigs) == Join(<<TSeg(tsText)>> \o [i \in DOMAIN sigs |-> V1Seg(sigs[i])])

SigSeqs == UNION {[1..n -> SigChoices] : n \in 1..MaxSigs}

ManySigHeaders == {ManySigs(ManyTs, sigs) : sigs \in SigSeqs}

SingleSigHeaders ==
  {SignedHeader(s, ts, p) : s \in {Secret1, Secret2}, ts \in Timestamps, p \in {Payload1, Payload2}}

Good1 == StripeSign(Secret1, ManyTs, Payload1)

UpperCase(text) ==
  [i \in DOMAIN text |-> IF text[i] \in Range(HexLower) THEN HexUpper[IndexOf(text[i], HexLower)] ELSE text[i]]

\* Headers off the documented format
OddHeaders ==
  {<<>>,
   V1Seg(Good1),
   TSeg(ManyTs),
   Join(<<TSeg(<<>>), V1Seg(Good1)>>),
   Join(<<TSeg(ManyTs), V1Seg(<<>>)>>),
   Join(<<TSeg(ManyTs), <<"v", "1", "=", "=">> \o Good1>>),
   Join(<<TSeg(ManyTs), <<"v", "0", "=">> \o Good1>>),
   Join(<<<<"v", "0", "=">> \o Good1, TSeg(ManyTs), V1Seg(Good1)>>),
   Join(<<V1Seg(Good1), TSeg(ManyTs)>>),
   Join(<<TSeg(ManyTs) \o <<" ">>, <<" ">> \o V1Seg(Good1)>>),
   Join(<<<<"t", " ", "=">> \o ManyTs, V1Seg(Good1)>>),
   Join(<<TSeg(<<>>), TSeg(ManyTs), V1Seg(Good1)>>),
   Join(<<TSeg(NatToString(699)), TSeg(ManyTs), V1Seg(Good1)>>),
   Join(<<TSeg(<<"x">>), V1Seg(StripeSign(Secret1, <<"N", "a", "N">>, Payload1))>>),
   Join(<<TSeg(<<"x">>), V1Seg(Good1)>>),
   Join(<<TSeg(ManyTs \o <<"x">>), V1Seg(Good1)>>),
   Join(<<TSeg(<<"0">> \o ManyTs), V1Seg(Good1)>>),
   Join(<<TSeg(ManyTs), V1Seg(UpperCase(Good1))>>),
   Join(<<TSeg(ManyTs), V1Seg(Good1 \o Garbage)>>),
   Join(<<TSeg(ManyTs), V1Seg(Good1 \o <<"0">>)>>),
   Join(<<TSeg(ManyTs), V1Seg(SubSeq(Good1, 1, Len(Good1) - 2))>>)}

VerifierHeaders == SingleSigHeaders \cup ManySigHeaders \cup OddHeaders

\* The payloads the verifier is called with
VerifierBodies == {Payload1, Payload2}

VerifierEnv(secret) ==
  [STRIPE_WEBHOOK_SECRET |-> Some(secret),
   SUPABASE_INTERNAL_WEBHOOK_URL |-> None,
   SUPABASE_SERVICE_ROLE_KEY |-> None,
   INTERNAL_EDGE_AUTH_TOKEN |-> None,
   INTERNAL_WEBHOOK_SHARED_SECRET |-> None,
   SUPABASE_PING_MODE |-> None]

InitVerify ==
  /\ variant \in {1, 2}
  /\ env \in {VerifierEnv(Secret1), VerifierEnv(Secret2)}
  /\ request \in [{"r1"} -> [method : {"POST"}, signature : {Some(h) : h \in VerifierHeaders},
                             body : VerifierBodies, contentType : {None}]]
  /\ pc = [r \in {"r1"} |-> "Verifying"]
  /\ rawBody = [r \in {"r1"} |-> request[r].body]
  /\ stripeSignature = [r \in {"r1"} |-> request[r].signature]
  /\ entries = [r \in {"r1"} |-> <<>>]
  /\ currentTimestamp = [r \in {"r1"} |-> 0]
  /\ signedPayloads = [r \in {"r1"} |-> <<>>]
  /\ verification = [r \in {"r1"} |-> None]
  /\ eventInfo = [r \in {"r1"} |-> None]
  /\ outbound = [r \in {"r1"} |-> <<>>]
  /\ timer = [r \in {"r1"} |-> "unset"]
  /\ downstream = [r \in {"r1"} |-> None]
  /\ errorBody = [r \in {"r1"} |-> None]
  /\ forwardResult = [r \in {"r1"} |-> None]
  /\ response = [r \in {"r1"} |-> None]
  /\ fault = [r \in {"r1"} |-> None]

NextVerify == \E r \in Reqs : Verifying(r)

SpecVerify == InitVerify /\ [][NextVerify]_vars

----------------------------------------------------------------------------
(* Properties of the verifier and of the parser, under SpecVerify          *)

Distance(a, b) == IF a >= b THEN a - b ELSE b - a

Header(r) == OrEmpty(stripeSignature[r])
SecretOf(r) == OrEmpty(env.STRIPE_WEBHOOK_SECRET)

\* verifyStripeSignature has run for r, and its outcome
Verified(r) == IsSome(verification[r])
Valid(r) == IsSome(verification[r]) /\ Get(verification[r]).valid

\* The header of r is t=ts,v1=hex(HMAC-SHA256(S, ts + "." + P)) for the
\* secret S in force and the payload P of r
IsSignedHeaderAt(r, ts) == Header(r) = SignedHeader(SecretOf(r), ts, rawBody[r])

\* C4: a header t=ts,v1=hex(HMAC-SHA256(S, ts + "." + P)) verifies as valid
\* when |now - ts| <= 300 and as invalid when |now - ts| >= 301.
C4_ToleranceWindow ==
  \A r \in Reqs : Verified(r) =>
    \A ts \in Timestamps : IsSignedHeaderAt(r, ts) =>
      /\ Distance(currentTimestamp[r], ts) <= 300 => Valid(r)
      /\ Distance(currentTimestamp[r], ts) >= 301 => ~Valid(r)

\* A correctly signed header exactly 300 seconds off the clock was accepted
C4_Witness ==
  \E r \in Reqs, ts \in Timestamps :
    Verified(r) /\ IsSignedHeaderAt(r, ts) /\ Distance(currentTimestamp[r], ts) = 300 /\ Valid(r)

\* The header built from each sequence of candidate values
HeaderOfSigs == [sigs \in SigSeqs |-> ManySigs(ManyTs, sigs)]

\* C5: a header with one in-window timestamp and several v1= values
\* verifies as valid whenever at least one of the values is the correct
\* signature, wherever it stands and however many wrong values precede it.
C5_AnyCandidateVerifies ==
  \A r \in Reqs : Verified(r) =>
    \A sigs \in SigSeqs :
      (/\ Header(r) = HeaderOfSigs[sigs]
       /\ Distance(currentTimestamp[r], parseInt(ManyTs).val) <= 300
       /\ \E i \in DOMAIN sigs : sigs[i] = StripeSign(SecretOf(r), ManyTs, rawBody[r]))
      => Valid(r)

\* The correct signature stood third, after two wrong values, and the header
\* was accepted
C5_Witness ==
  \E r \in Reqs, sigs \in SigSeqs :
    /\ Valid(r)
    /\ Len(sigs) >= 3
    /\ Header(r) = HeaderOfSigs[sigs]
    /\ sigs[1] # StripeSign(SecretOf(r), ManyTs, rawBody[r])
    /\ sigs[2] # StripeSign(SecretOf(r), ManyTs, rawBody[r])
    /\ sigs[3] = StripeSign(SecretOf(r), ManyTs, rawBody[r])

\* Some candidate of r's header decodes to the MAC of '<timestamp>.<body>'
CarriesMacFor(r, body) ==
  \E i \in DOMAIN entries[r] :
    HexDecode(entries[r][i].signature)
      = Hmac(SecretOf(r), NumberToString(parseInt(entries[r][i].timestamp)) \o <<".">> \o body)

ValidFor(r, body) == verifyStripeSignature(body, Header(r), SecretOf(r), currentTimestamp[r]).valid

\* C6 as stated: a header that verifies as valid for payload P verifies as
\* invalid for every payload that differs from P.
C6_Original ==
  \A r \in Reqs : Valid(r) => \A p \in VerifierBodies \ {rawBody[r]} : ~ValidFor(r, p)

\* C6, amended: a valid outcome implies that some candidate signature
\* decodes to the MAC of '<timestamp>.<P>' for exactly the payload given, and
\* the header verifies as invalid for every payload for which it carries no
\* such candidate.
C6_ValidImpliesMacOfPayload ==
  \A r \in Reqs : Verified(r) =>
    /\ Valid(r) => CarriesMacFor(r, rawBody[r])
    /\ \A p \in VerifierBodies : ~CarriesMacFor(r, p) => ~ValidFor(r, p)

\* A header with a single candidate was accepted for its payload and is
\* rejected for every other payload
C6_Witness ==
  \E r \in Reqs :
    /\ Valid(r)
    /\ Len(entries[r]) = 1
    /\ \A p \in VerifierBodies \ {rawBody[r]} : ~ValidFor(r, p)

\* The comma-separated segments of a header, trimmed
Segments(h) == {Trim(p) : p \in Range(Split(h, ","))}

HasSegment(h, prefix) == \E t \in Segments(h) : StartsWith(t, prefix)

\* A segment with the prefix whose value, the text up to the next "=", is not
\* empty
HasValuedSegment(h, prefix) ==
  \E t \in Segments(h) : StartsWith(t, prefix) /\ Len(t) > Len(prefix) /\ t[Len(prefix) + 1] # "="

TPrefix == <<"t", "=">>
V1Prefix == <<"v", "1", "=">>

\* C7 as stated: the candidate set is non-empty if and only if the header
\* contains a t= segment and at least one v1= segment; it is empty without a
\* t= segment and without a v1= segment, and verification is then invalid.
C7_Original ==
  \A r \in Reqs : Verified(r) =>
    /\ entries[r] # <<>> <=> (HasSegment(Header(r), TPrefix) /\ HasSegment(Header(r), V1Prefix))
    /\ ~HasSegment(Header(r), TPrefix) => entries[r] = <<>>
    /\ ~HasSegment(Header(r), V1Prefix) => entries[r] = <<>>
    /\ entries[r] = <<>> => ~Valid(r)

\* C7, amended: the candidate set is non-empty if and only if the header
\* contains a t= segment with a non-empty value and at least one v1= segment
\* with a non-empty value; it is empty without a t= segment and without a
\* v1= segment, and verification is then invalid.
C7_CandidatesIffValuedSegments ==
  \A r \in Reqs : Verified(r) =>
    /\ entries[r] # <<>> <=> (HasValuedSegment(Header(r), TPrefix) /\ HasValuedSegment(Header(r), V1Prefix))
    /\ ~HasSegment(Header(r), TPrefix) => entries[r] = <<>>
    /\ ~HasSegment(Header(r), V1Prefix) => entries[r] = <<>>
    /\ entries[r] = <<>> => ~Valid(r)

\* A header with a v1= segment and no t= segment was parsed to no candidate
\* and rejected
C7_Witness ==
  \E r \in Reqs :
    /\ Verified(r)
    /\ HasValuedSegment(Header(r), V1Prefix)
    /\ ~HasSegment(Header(r), TPrefix)
    /\ entries[r] = <<>>
    /\ ~Valid(r)

----------------------------------------------------------------------------
(* Properties of the handler, under Spec                                   *)

IsPost(r) == request[r].method = "POST"

\* The handler of r has returned
Done(r) == pc[r] = "Done"

\* The handler of r has returned and its body was read: no exception reached
\* the catch block of POST
DoneAfterBodyRead(r) == IsPost(r) /\ Done(r) /\ IsNone(fault[r])

Success2xx == 200..299

\* The downstream endpoint answered the forward call of r with a 2xx status
DownstreamAnswered2xx(r) == IsSome(downstream[r]) /\ Get(downstream[r]) \in Success2xx

\* forwardToSupabase was entered for r, or has left a trace
ForwarderInvoked(r) ==
  \/ pc[r] \in {"Forwarding", "Fetching", "ReadingErrorBody", "Forwarded"}
  \/ IsSome(forwardResult[r])
  \/ timer[r] # "unset"
  \/ outbound[r] # <<>>

\* C1: the handler responds 200 {ok:true} if and only if the signature
\* verified as valid and the downstream endpoint answered this request's
\* forward call with a status in 200..299; in every other case the status of
\* the response is not 2xx.
C1_OkIffVerifiedAndForwarded ==
  \A r \in Reqs : (IsPost(r) /\ Done(r)) =>
    /\ IsSome(response[r])
    /\ (Valid(r) /\ DownstreamAnswered2xx(r)) <=> Get(response[r]) = [status |-> 200, body |-> OkBody]
    /\ ~(Valid(r) /\ DownstreamAnswered2xx(r)) => Get(response[r]).status \notin Success2xx

\* A verified request whose forward call was answered 2xx got 200 {ok:true}
C1_Witness ==
  \E r \in Reqs :
    /\ IsPost(r) /\ Done(r) /\ Valid(r) /\ DownstreamAnswered2xx(r)
    /\ Get(response[r]) = [status |-> 200, body |-> OkBody]

\* C2: no outbound call is issued unless verifyStripeSignature returned
\* valid=true; with the header missing, the secret not configured or the
\* verification invalid the forwarder is never invoked.
C2_NoForwardUnlessValid ==
  \A r \in Reqs :
    /\ ForwarderInvoked(r) => Valid(r)
    /\ (\/ ~Truthy(request[r].signature)
        \/ ~Truthy(env.STRIPE_WEBHOOK_SECRET)
        \/ (Verified(r) /\ ~Valid(r)))
       => (~ForwarderInvoked(r) /\ outbound[r] = <<>>)

\* A request with an invalid signature was answered with no outbound call,
\* under a complete forwarder configuration
C2_Witness ==
  \E r \in Reqs :
    /\ IsPost(r) /\ Done(r) /\ Verified(r) /\ ~Valid(r)
    /\ IsNone(ConfigError(variant, env))
    /\ outbound[r] = <<>>

EndsWith(s, suffix) == Len(s) >= Len(suffix) /\ SubSeq(s, Len(s) - Len(suffix) + 1, Len(s)) = suffix

\* C3 as stated: the body of every outbound call is the raw payload read
\* from the inbound request and hashed by the verifier, under any
\* configuration.
C3_Original ==
  \A r \in Reqs : \A i \in DOMAIN outbound[r] :
    /\ outbound[r][i].body = request[r].body
    /\ outbound[r][i].body = rawBody[r]
    /\ \E j \in DOMAIN signedPayloads[r] : EndsWith(signedPayloads[r][j], <<".">> \o outbound[r][i].body)

\* C8: a POST request without a signature header, once its body is read, is answered 400 'Missing
\* stripe-signature header', also when the verification secret is not
\* configured, and neither verification nor forwarding is performed.
C8_MissingHeader ==
  \A r \in Reqs : (DoneAfterBodyRead(r) /\ IsNone(request[r].signature)) =>
    /\ response[r] = Some([status |-> 400, body |-> ErrorBody("Missing stripe-signature header")])
    /\ ~Verified(r)
    /\ signedPayloads[r] = <<>>
    /\ ~ForwarderInvoked(r)

\* A request without the header was answered 400 while the secret was not
\* configured
C8_Witness ==
  \E r \in Reqs :
    /\ DoneAfterBodyRead(r) /\ IsNone(request[r].signature)
    /\ ~Truthy(env.STRIPE_WEBHOOK_SECRET)
    /\ Get(response[r]).status = 400

\* No candidate of the header of r verifies: the verifier returned invalid,
\* or it was not called and the header holds no candidate
NoCandidateVerifies(r) ==
  IF Verified(r) THEN ~Valid(r) ELSE parseStripeSignatureHeader(OrEmpty(request[r].signature)) = <<>>

InvalidSignature400 == Some([status |-> 400, body |-> ErrorBody("Invalid signature")])

\* C9 as stated: a POST request that carries a signature header for which no
\* candidate verifies, with the secret configured, is answered 400
\* {"error":"Invalid signature"}.
C9_Original ==
  \A r \in Reqs :
    (/\ DoneAfterBodyRead(r)
     /\ IsSome(request[r].signature)
     /\ Truthy(env.STRIPE_WEBHOOK_SECRET)
     /\ NoCandidateVerifies(r))
    => response[r] = InvalidSignature400

\* C9, amended: a POST request that carries a non-empty signature header for
\* which no candidate verifies, with the secret configured, is answered 400
\* {"error":"Invalid signature"}, whatever the forwarder configuration and the
\* downstream state are.
C9_InvalidSignature ==
  \A r \in Reqs :
    (/\ DoneAfterBodyRead(r)
     /\ Truthy(request[r].signature)
     /\ Truthy(env.STRIPE_WEBHOOK_SECRET)
     /\ NoCandidateVerifies(r))
    => (response[r] = InvalidSignature400 /\ Verified(r) /\ outbound[r] = <<>>)

\* A request with a header signed for another payload was answered 400
\* 'Invalid signature' under a complete forwarder configuration
C9_Witness ==
  \E r \in Reqs :
    /\ DoneAfterBodyRead(r) /\ Truthy(request[r].signature) /\ Verified(r) /\ ~Valid(r)
    /\ IsNone(ConfigError(variant, env))
    /\ response[r] = InvalidSignature400

ConfigurationError500 == Some([status |-> 500, body |-> ErrorBody("Server configuration error")])

\* C10 as stated: a POST request that carries a signature header while the
\* verification secret is not configured is answered 500 with a
\* configuration error, without verification and without forwarding.
C10_Original ==
  \A r \in Reqs :
    (DoneAfterBodyRead(r) /\ IsSome(request[r].signature) /\ ~Truthy(env.STRIPE_WEBHOOK_SECRET))
    => (response[r] = ConfigurationError500 /\ ~Verified(r) /\ ~ForwarderInvoked(r))

\* C10, amended: a POST request that carries a non-empty signature header
\* while the verification secret is not configured is answered 500 with a
\* configuration error, without verification and without forwarding.
C10_MissingSecret ==
  \A r \in Reqs :
    (DoneAfterBodyRead(r) /\ Truthy(request[r].signature) /\ ~Truthy(env.STRIPE_WEBHOOK_SECRET))
    => (response[r] = ConfigurationError500 /\ ~Verified(r) /\ signedPayloads[r] = <<>> /\ ~ForwarderInvoked(r))

\* A correctly signed request was answered 500 because the secret was not
\* configured
C10_Witness ==
  \E r \in Reqs :
    /\ DoneAfterBodyRead(r)
    /\ request[r].signature = Some(SignedHeader(Secret1, 1000, request[r].body))
    /\ ~Truthy(env.STRIPE_WEBHOOK_SECRET)
    /\ response[r] = ConfigurationError500

----------------------------------------------------------------------------
(* Properties of the forwarder and of the failure paths, under Spec        *)

\* The forward call of r was issued and ended without an answer of the
\* downstream endpoint: fetch rejected on the connection, or was aborted
ConnectionFailed(r) ==
  /\ pc[r] \in {"Forwarded", "Done"}
  /\ outbound[r] # <<>>
  /\ IsNone(downstream[r])

\* C11 as stated: when the forward call of a verified request fails at the
\* connection level (timeout, DNS, TLS, connection reset, endpoint
\* unreachable), the handler responds 502.
C11_Original ==
  \A r \in Reqs : (Done(r) /\ Valid(r) /\ ConnectionFailed(r)) => Get(response[r]).status = 502

\* The downstream endpoint answered the forward call of r with a status
\* outside 200..299
DownstreamRejected(r) == IsSome(downstream[r]) /\ Get(downstream[r]) \notin Success2xx

FailedToForward500 == Some([status |-> 500, body |-> ErrorBody("Failed to forward webhook")])

\* C12: when the downstream endpoint answers the forward call of a verified
\* request with a status outside 200..299, the forwarder reports a failure
\* that carries that status and the handler responds 500
\* {"error":"Failed to forward webhook"}, never 200.
C12_DownstreamRejected ==
  \A r \in Reqs : (Valid(r) /\ DownstreamRejected(r)) =>
    /\ IsSome(forwardResult[r]) => forwardResult[r] = Some(Failure(downstream[r], None, None))
    /\ Done(r) => (IsSome(forwardResult[r]) /\ response[r] = FailedToForward500)

\* Variant 2 answered 500 'Failed to forward webhook' after the downstream
\* endpoint answered 404
C12_Witness ==
  \E r \in Reqs :
    /\ variant = 2 /\ Done(r) /\ Valid(r)
    /\ downstream[r] = Some(404)
    /\ forwardResult[r] = Some(Failure(Some(404), None, None))
    /\ response[r] = FailedToForward500

\* The bearer credential of the deployed variant
BearerCredential(v, e) == IF v = 1 THEN e.SUPABASE_SERVICE_ROLE_KEY ELSE e.INTERNAL_EDGE_AUTH_TOKEN

\* The destination URL is absent, does not parse as a URL, or has a scheme
\* other than https
DestinationUnusable(e) ==
  \/ ~Truthy(e.SUPABASE_INTERNAL_WEBHOOK_URL)
  \/ IsNone(UrlProtocol(Get(e.SUPABASE_INTERNAL_WEBHOOK_URL)))
  \/ Get(UrlProtocol(Get(e.SUPABASE_INTERNAL_WEBHOOK_URL))) # Https

\* C13 as stated: if the destination URL is absent, does not parse, or uses
\* a scheme other than https, or if the bearer credential is absent, the
\* forwarder returns a configuration failure without any network call, and
\* the handler responds 500.
C13_Original ==
  \A r \in Reqs :
    (DestinationUnusable(env) \/ ~Truthy(BearerCredential(variant, env))) =>
      /\ outbound[r] = <<>>
      /\ IsSome(forwardResult[r]) => ~Get(forwardResult[r]).success
      /\ (Done(r) /\ Valid(r)) => Get(response[r]).status = 500

\* The forward call of r has an outcome: forwardToSupabase has returned
ForwardOutcome(r) == IsSome(forwardResult[r])

\* C14: at most one outbound call is issued per inbound request: after any
\* forward outcome (success, downstream rejection, network error, timeout)
\* the handler only responds, and its response is the one of that outcome.
C14_AtMostOneOutboundCall ==
  \A r \in Reqs :
    /\ Len(outbound[r]) <= 1
    /\ ForwardOutcome(r) => pc[r] \in {"Forwarded", "Done"}
    /\ (ForwardOutcome(r) /\ Done(r)) => response[r] = ForwardResponse(variant, Get(forwardResult[r]))

\* A request whose single outbound call failed on the connection was answered
C14_Witness ==
  \E r \in Reqs :
    /\ Done(r) /\ ConnectionFailed(r) /\ ForwardOutcome(r)
    /\ Len(outbound[r]) = 1
    /\ Get(response[r]).status \in {500, 502}

\* The timer of r expired while the forward call was pending, and aborted it
TimedOut(r) == timer[r] = "aborted"

\* C15 as stated: if the downstream endpoint has not answered when the
\* forward timeout expires, the outbound call is aborted, the forward
\* outcome is a failure classified as a timeout network error, and the
\* handler responds with the network-error status, 502, without waiting
\* further.
C15_Original ==
  \A r \in Reqs : TimedOut(r) =>
    /\ pc[r] \in {"Forwarded", "Done"}
    /\ IsNone(downstream[r])
    /\ IsSome(forwardResult[r])
    /\ ~Get(forwardResult[r]).success
    /\ IsSome(Get(forwardResult[r]).gatewayError)
    /\ Get(Get(forwardResult[r]).gatewayError).name = "AbortError"
    /\ Done(r) => Get(response[r]).status = 502

----------------------------------------------------------------------------
(* The timestamp text of the header, under SpecVerify                      *)

\* The texts that follow t= in the segments of header h
TValues(h) == {SubSeq(s, 3, Len(s)) : s \in {x \in Segments(h) : StartsWith(x, TPrefix)}}

\* text is a decimal integer: digits only, at least one
IsDecimalInteger(text) == text # <<>> /\ \A i \in DOMAIN text : IsDigit(text[i])

\* C16 as stated: verifyStripeSignature returns an outcome for every payload,
\* header and secret, and for every header whose t= value is not a decimal
\* integer the outcome is valid=false whatever the v1= values are.
C16_Original ==
  \A r \in Reqs :
    /\ pc[r] # "Verifying" => Verified(r)
    /\ (/\ Verified(r)
        /\ TValues(Header(r)) # {}
        /\ \A t \in TValues(Header(r)) : ~IsDecimalInteger(t))
       => ~Valid(r)

----------------------------------------------------------------------------
(* Faults, under Spec                                                      *)

\* C17 as stated: any fault raised while the POST handler processes a
\* request, from handler entry on, is caught by the handler and answered 500
\* {"error":"Internal server error"}; no fault escapes the handler.
C17_Original ==
  \A r \in Reqs : IsSome(fault[r]) =>
    /\ pc[r] = "Done"
    /\ response[r] = Some([status |-> 500, body |-> ErrorBody("Internal server error")])

----------------------------------------------------------------------------
(* What the response carries, under Spec                                   *)

\* sub occurs in s as a run of consecutive characters
ContainsText(s, sub) ==
  \E i \in 1..(Len(s) - Len(sub) + 1) : SubSeq(s, i, i + Len(sub) - 1) = sub

\* The secrets of the configuration: the verification secret, the bearer
\* credential of the deployed variant and the shared secret
SecretsOf(v, e) ==
  {Get(o) : o \in {x \in {e.STRIPE_WEBHOOK_SECRET, BearerCredential(v, e), e.INTERNAL_WEBHOOK_SHARED_SECRET} : Truthy(x)}}

\* The texts of a response body that are not literals of the source: the
\* value quoted by the message of a gateway error
BodyTexts(body) ==
  IF IsSome(body.details) /\ IsSome(Get(body.details).message.quoted)
  THEN {Get(Get(body.details).message.quoted)}
  ELSE {}

\* The response to a request whose forward call was answered with status:
\* a function of the status alone
ResponseForStatus(status) ==
  IF status \in Success2xx THEN Some([status |-> 200, body |-> OkBody]) ELSE FailedToForward500

\* C19 as stated: the response to the sender does not depend on the body of
\* the downstream response (with the same downstream status the response is
\* the same whatever body came with it), and no response contains the
\* verification secret, the bearer credential or the shared secret.
C19_Original ==
  \A r \in Reqs :
    /\ (Done(r) /\ IsSome(downstream[r])) => response[r] = ResponseForStatus(Get(downstream[r]))
    /\ IsSome(response[r]) =>
         \A text \in BodyTexts(Get(response[r]).body) : \A secret \in SecretsOf(variant, env) :
            ~ContainsText(text, secret)

----------------------------------------------------------------------------
(* Two requests in flight under one configuration: the first carries a     *)
(* payload that parses as JSON and has an id, the second a payload that    *)
(* does not parse, correctly signed or signed with another secret.         *)

PairEnv(v) ==
  [STRIPE_WEBHOOK_SECRET |-> Some(Secret1),
   SUPABASE_INTERNAL_WEBHOOK_URL |-> Some(Https \o <<"/", "/", "h">>),
   SUPABASE_SERVICE_ROLE_KEY |-> IF v = 1 THEN Some(<<"k">>) ELSE None,
   INTERNAL_EDGE_AUTH_TOKEN |-> IF v = 2 THEN Some(<<"k">>) ELSE None,
   INTERNAL_WEBHOOK_SHARED_SECRET |-> None,
   SUPABASE_PING_MODE |-> None]

SignedPost(secret, body) ==
  [method |-> "POST", signature |-> Some(SignedHeader(secret, 1000, body)), body |-> body,
   contentType |-> None]

PairRequests ==
  {[r1 |-> SignedPost(Secret1, Payload1), r2 |-> SignedPost(s, Payload3)] : s \in {Secret1, Secret2}}

InitPair ==
  /\ variant \in {1, 2}
  /\ env = PairEnv(variant)
  /\ request \in PairRequests
  /\ Arrived({"r1", "r2"})

NextPair ==
  \/ \E r \in Reqs : Enter(r)
  \/ \E r \in Reqs : EnterFails(r)
  \/ \E r \in Reqs : ReadBody(r)
  \/ \E r \in Reqs : ReadBodyFails(r)
  \/ \E r \in Reqs : HeaderCheck(r)
  \/ \E r \in Reqs : SecretCheck(r)
  \/ \E r \in Reqs : Verifying(r)
  \/ \E r \in Reqs : Introspect(r)
  \/ \E r \in Reqs : StartForward(r)
  \/ \E r \in Reqs, status \in Statuses : FetchResponds(r, status)
  \/ \E r \in Reqs : ReadErrorBody(r)
  \/ \E r \in Reqs, cause \in Causes : FetchFails(r, cause)
  \/ \E r \in Reqs : TimerFires(r)
  \/ \E r \in Reqs : Respond(r)

SpecPair == InitPair /\ [][NextPair]_vars

\* The positions of a handler
Positions ==
  {"Enter", "Thrown", "ReceivingBody", "HeaderCheck", "SecretCheck", "Verifying", "Introspect",
   "Forwarding", "Fetching", "ReadingErrorBody", "Forwarded", "Done"}

\* The positions at which the handler has a continuation ready to run: the
\* next statement of POST, GET or forwardToSupabase is synchronous code, or
\* the continuation of an await that has settled. At "ReceivingBody" the
\* handler waits for the sender, at "Fetching" and "ReadingErrorBody" for
\* the downstream endpoint or the timer.
HandlerReady ==
  {"Enter", "HeaderCheck", "SecretCheck", "Verifying", "Introspect", "Forwarding", "Forwarded"}

\* The handler of r runs its ready continuation: it leaves a ready position.
\* From a ready position the only steps that move r are Enter, EnterFails,
\* GET, HeaderCheck, SecretCheck, Verifying, Introspect, StartForward and
\* Respond.
HandlerMoves(r) ==
  /\ pc[r] \in HandlerReady
  /\ pc' \in [DOMAIN pc -> Positions]
  /\ pc'[r] # pc[r]

LiveRequests ==
  {SignedPost(Secret1, Payload1), SignedPost(Secret2, Payload1),
   [method |-> "POST", signature |-> None, body |-> Payload1, contentType |-> None],
   [method |-> "GET", signature |-> None, body |-> Payload1, contentType |-> None]}

InitLive ==
  /\ variant \in {1, 2}
  /\ env = PairEnv(variant)
  /\ request \in [{"r1"} -> LiveRequests]
  /\ Arrived({"r1"})

\* The handler under the scheduling of the event loop: a ready continuation
\* of the handler is run, and an armed timer expires. Nothing obliges the
\* sender or the downstream endpoint to act.
SpecLive ==
  /\ InitLive
  /\ [][Next]_vars
  /\ WF_pc(HandlerMoves("r1"))
  /\ WF_vars(TimerFires("r1"))

\* The downstream endpoint treated the forward calls of a and b alike: the
\* same status, or no answer and the same end by timeout or not
SameDownstream(a, b) == downstream[a] = downstream[b] /\ TimedOut(a) = TimedOut(b)

\* The body forwardToSupabase sends for r under the configuration
BodyToForward(r) == IF variant = 2 /\ PingMode(env) THEN PingBody ELSE request[r].body

\* safeJsonParseForLog found a type or an id in the payload of r
Introspected(r) == IsSome(eventInfo[r]) /\ Get(eventInfo[r]) # [type |-> None, id |-> None]

----------------------------------------------------------------------------
(* GET, under Spec                                                         *)

IsGet(r) == request[r].method = "GET"

\* C20: a GET request is always answered 405 {"error":"Method not allowed"},
\* whatever its headers, the configuration and the downstream state are, and
\* it never triggers verification or forwarding.
C20_GetNotAllowed ==
  \A r \in Reqs : IsGet(r) =>
    /\ pc[r] \in {"Enter", "Done"}
    /\ Done(r) => response[r] = Some([status |-> 405, body |-> ErrorBody("Method not allowed")])
    /\ ~Verified(r) /\ signedPayloads[r] = <<>> /\ IsNone(eventInfo[r])
    /\ ~ForwarderInvoked(r) /\ outbound[r] = <<>> /\ IsNone(downstream[r])

\* A GET request with a correctly signed header was answered 405 under a
\* complete configuration
C20_Witness ==
  \E r \in Reqs :
    /\ IsGet(r) /\ Done(r)
    /\ IsSome(request[r].signature)
    /\ Truthy(env.STRIPE_WEBHOOK_SECRET) /\ IsNone(ConfigError(variant, env))
    /\ Get(response[r]).status = 405

----------------------------------------------------------------------------
(* The candidate set of the parser, under SpecVerify                       *)

\* The segments of header h in header order, trimmed
SegmentSeq(h) == [i \in DOMAIN Split(h, ",") |-> Trim(Split(h, ",")[i])]

\* The value of a segment with the prefix: the text after the prefix, up to
\* the next "=" when there is one
SegmentValue(seg, prefix) ==
  LET rest == SubSeq(seg, Len(prefix) + 1, Len(seg))
      j == IndexOf("=", rest)
  IN IF j = 0 THEN rest ELSE SubSeq(rest, 1, j - 1)

IsTSegment(seg) == StartsWith(seg, TPrefix)
IsV1Segment(seg) == StartsWith(seg, V1Prefix)
IsValuedT(seg) == IsTSegment(seg) /\ SegmentValue(seg, TPrefix) # <<>>
IsValuedV1(seg) == IsV1Segment(seg) /\ SegmentValue(seg, V1Prefix) # <<>>
IsKnownSegment(seg) == IsTSegment(seg) \/ IsV1Segment(seg)

\* Header h without the segments that start with neither t= nor v1=
WithoutOtherSegments(h) == Join(SelectSeq(SegmentSeq(h), IsKnownSegment))

\* C21 as stated: in every candidate set the parser returns, all candidates
\* carry the value of the first t= segment of the header, there is exactly
\* one candidate per v1= segment in header order, and segments with any
\* other prefix do not change the result.
C21_Original ==
  \A r \in Reqs : (Verified(r) /\ entries[r] # <<>>) =>
    LET ts == SelectSeq(SegmentSeq(Header(r)), IsTSegment)
        v1s == SelectSeq(SegmentSeq(Header(r)), IsV1Segment)
    IN /\ \A i \in DOMAIN entries[r] : entries[r][i].timestamp = SegmentValue(ts[1], TPrefix)
       /\ Len(entries[r]) = Len(v1s)
       /\ \A i \in DOMAIN entries[r] : entries[r][i].signature = SegmentValue(v1s[i], V1Prefix)
       /\ parseStripeSignatureHeader(WithoutOtherSegments(Header(r))) = entries[r]

\* C21, amended: in every candidate set the parser returns, all candidates
\* carry the value of the first t= segment whose value is not empty, there
\* is exactly one candidate per v1= segment whose value is not empty, in
\* header order, and segments with any other prefix do not change the
\* result; the value of a segment is the text between its first and its
\* second "=".
C21_CandidatesOfValuedSegments ==
  \A r \in Reqs : Verified(r) =>
    LET ts == SelectSeq(SegmentSeq(Header(r)), IsValuedT)
        v1s == SelectSeq(SegmentSeq(Header(r)), IsValuedV1)
    IN /\ entries[r] # <<>> => (ts # <<>> /\ v1s # <<>>)
       /\ (ts # <<>>) =>
            /\ Len(entries[r]) = Len(v1s)
            /\ \A i \in DOMAIN entries[r] :
                 /\ entries[r][i].timestamp = SegmentValue(ts[1], TPrefix)
                 /\ entries[r][i].signature = SegmentValue(v1s[i], V1Prefix)
       /\ parseStripeSignatureHeader(WithoutOtherSegments(Header(r))) = entries[r]

\* A header with two valued t= segments, a segment of another prefix or an
\* empty t= segment before the valued one was parsed to candidates
C21_Witness ==
  \E r \in Reqs :
    /\ Verified(r) /\ entries[r] # <<>>
    /\ Len(SelectSeq(SegmentSeq(Header(r)), IsValuedT)) = 2
    /\ entries[r][1].timestamp = SegmentValue(SelectSeq(SegmentSeq(Header(r)), IsValuedT)[1], TPrefix)

\* ---------------------------------------------------------------------
\* The comparison of a candidate with the expected signature, under
\* SpecVerify
\* ---------------------------------------------------------------------

\* The MAC the verifier computes for the candidate of request r at position i
ExpectedFor(r, i) ==
  ExpectedSignature(SecretOf(r), parseInt(entries[r][i].timestamp), rawBody[r])

\* The candidate at position i passes the time check and the comparison
Accepted(r, i) ==
  /\ ~OutsideTolerance(currentTimestamp[r], parseInt(entries[r][i].timestamp))
  /\ BuffersEqual(ExpectedFor(r, i), entries[r][i].signature)

\* C22: a candidate whose signature string does not have the same length as
\* the expected hex-encoded MAC is treated as a non-match: no candidate that
\* the verifier accepts is a longer or a shorter string than the expected
\* signature.
C22_Original ==
  \A r \in Reqs : Verified(r) =>
    \A i \in DOMAIN entries[r] :
      Accepted(r, i) => Len(entries[r][i].signature) = Len(ExpectedFor(r, i))

\* ---------------------------------------------------------------------
\* Termination of the handler, under SpecLive
\* ---------------------------------------------------------------------

\* The inbound body of the POST request r has just been read
BodyRead(r) == IsPost(r) /\ pc[r] = "HeaderCheck"

\* The handler of r has returned a response with one of the four statuses
Responded(r) ==
  Done(r) /\ IsSome(response[r]) /\ Get(response[r]).status \in {200, 400, 500, 502}

\* C23: once the inbound body of a POST request has been read, the handler
\* eventually responds, with a status in {200, 400, 500, 502}, even if the
\* downstream endpoint never answers or never finishes sending its reply.
C23_Original == BodyRead("r1") ~> Responded("r1")

\* ---------------------------------------------------------------------
\* The timer of the forward call
\* ---------------------------------------------------------------------

\* The outbound call of r was sent and has completed with a response or with
\* a connection failure, not by the abort of the timer
CallCompleted(r) ==
  /\ outbound[r] # <<>>
  /\ pc[r] \in {"ReadingErrorBody", "Forwarded", "Done"}
  /\ timer[r] # "aborted"

\* C25: once the outbound call has completed, either with a response or
\* with a connection failure, the timeout timer is disarmed and the abort is
\* never triggered for that request: the timer of a completed call has not
\* expired and is not left armed.
C25_Original ==
  \A r \in Reqs : CallCompleted(r) => timer[r] \notin {"armed", "fired"}

\* ---------------------------------------------------------------------
\* Concurrent requests, under SpecPair
\* ---------------------------------------------------------------------

\* Everything the handler of r has written
Local(r) ==
  <<pc[r], rawBody[r], stripeSignature[r], entries[r], currentTimestamp[r], signedPayloads[r],
    verification[r], eventInfo[r], outbound[r], timer[r], downstream[r], errorBody[r],
    forwardResult[r], response[r], fault[r]>>

\* A step writes the state of one request only, and neither the
\* configuration nor a request
StepOfOne ==
  /\ <<variant, env, request>>' = <<variant, env, request>>
  /\ \E r \in Reqs : \A q \in Reqs \ {r} : Local(q)' = Local(q)

\* The outcome of verifyStripeSignature for r handled alone, at the clock
\* value its handler read
AloneVerification(r) ==
  LET v == verifyStripeSignature(request[r].body, OrEmpty(request[r].signature),
                                 OrEmpty(env.STRIPE_WEBHOOK_SECRET), currentTimestamp[r])
  IN Some([valid |-> v.valid, timestamp |-> v.timestamp])

\* The signature header forwarded for r handled alone
AloneSignature(r) ==
  IF variant = 1 THEN OrEmpty(request[r].signature)
  ELSE OrEmpty(request[r].signature) \o <<",", " ">> \o OrEmpty(request[r].signature)

\* The results forwardToSupabase may return for r handled alone, given what
\* the downstream endpoint and the timer of r did
AloneForwardResults(r) ==
  IF IsSome(downstream[r])
  THEN {IF ResponseOk(Get(downstream[r])) THEN Success(Get(downstream[r]))
        ELSE Failure(downstream[r], None, None)}
  ELSE IF TimedOut(r)
  THEN {CatchFetchError(variant, "AbortError", Message("This operation was aborted"), NoCause)}
  ELSE {CatchFetchError(variant, "TypeError", Message("fetch failed"), cause) : cause \in Causes}

\* The response of r is the one r gets when handled alone
AloneResponse(r) ==
  IF IsSome(fault[r]) THEN response[r] = InternalErrorResponse
  ELSE IF ~Valid(r) THEN response[r] = InvalidSignatureResponse
  ELSE /\ IsSome(forwardResult[r])
       /\ Get(forwardResult[r]) \in AloneForwardResults(r)
       /\ response[r] = ForwardResponse(variant, Get(forwardResult[r]))

\* Verification outcome, forwarded body, forwarded signature header and
\* response of every request are those of the request handled alone
AloneOutcomes ==
  \A r \in Reqs :
    /\ Verified(r) => verification[r] = AloneVerification(r)
    /\ Len(outbound[r]) <= 1
    /\ \A i \in DOMAIN outbound[r] :
         /\ outbound[r][i].body = BodyToForward(r)
         /\ outbound[r][i].stripeSignature = AloneSignature(r)
    /\ Done(r) => AloneResponse(r)

\* C24: concurrent requests do not interfere: under every interleaving of
\* two in-flight POST requests, each request's verification outcome,
\* forwarded body, forwarded signature header and response are the same as
\* if that request had been handled alone, and every step writes the state
\* of one request only.
C24_NoInterference == []AloneOutcomes /\ [][StepOfOne]_vars

\* Both requests were verified at different clock values, forwarded with
\* different bodies, and answered differently: one 200, the other not
C24_Witness ==
  /\ Done("r1") /\ Done("r2") /\ Valid("r1") /\ Valid("r2")
  /\ currentTimestamp["r1"] # currentTimestamp["r2"]
  /\ Len(outbound["r1"]) = 1 /\ Len(outbound["r2"]) = 1
  /\ outbound["r1"][1].body # outbound["r2"][1].body
  /\ outbound["r1"][1].stripeSignature # outbound["r2"][1].stripeSignature
  /\ Get(response["r1"]).status = 200
  /\ Get(response["r2"]).status # 200

====
